---------------------------- MODULE Spec2Model ----------------------------
(***************************************************************************)
(* Parallel Gauss-Seidel with pthreads (gsi_pth.c).                        *)
(*                                                                         *)
(* The worker threads run thread_compute; one step of the model is one     *)
(* access to shared memory (an atomic load or store of a progress counter, *)
(* a barrier wait, the reads of one stencil, the write of one cell) with   *)
(* the thread-local code around it.  The main thread runs gsi_calculate.   *)
(*                                                                         *)
(* Arithmetic: the grid holds doubles.  The model keeps finite precision:  *)
(* a value is a whole number of units (one unit = one ulp) and the result  *)
(* of the stencil is rounded to the nearest unit, ties to even, as IEEE    *)
(* arithmetic rounds.                                                      *)
(***************************************************************************)
EXTENDS Integers, Sequences, FiniteSets, TLC

(* ---- bounds of the model ---------------------------------------------- *)
MaxSize == 5
MaxThreads == 3
MaxIter == 2
MaxTol == 1
MaxVal == 2

VARIABLES
    gs_size,          \* S: the grid is gs_size x gs_size
    gs_nthreads,      \* N
    gs_iterations,    \* I
    gs_tolerance,     \* convergence tolerance
    gs_matrix,        \* the shared grid, flat, indexed by GS_INDEX
    threads,          \* threads[t] = [error, row_progress]
    global_error,
    final_iteration,
    barrier_count,    \* iter_barrier: threads blocked in pthread_barrier_wait
    pc,               \* position of each worker
    resume,           \* where a worker blocked in the barrier continues
    iter,             \* thread_compute's iter
    start_col,
    end_col,
    row_i,            \* thread_sweep's i
    col_j,            \* thread_sweep's j
    local_error,
    new_value,
    main_pc,          \* position of gsi_calculate
    main_t,           \* gsi_calculate's t
    report,           \* what gsi_calculate printed
    \* history (never read by the program)
    matrix0,          \* the grid as it was handed to the program
    version,          \* version[c]: how many times cell c was written
    err_hist,         \* the global error of each finished iteration
    sweeps,           \* sweeps[t]: sweeps worker t completed
    bwaits,           \* bwaits[t]: barrier waits worker t called
    create_failed,
    join_failed

vars == << gs_size, gs_nthreads, gs_iterations, gs_tolerance, gs_matrix,
           threads, global_error, final_iteration, barrier_count, pc, resume,
           iter, start_col, end_col, row_i, col_j, local_error, new_value,
           main_pc, main_t, report, matrix0, version, err_hist, sweeps,
           bwaits, create_failed, join_failed >>

Tids == 0 .. (gs_nthreads - 1)

(* ---- the collaborator's grid ------------------------------------------ *)
GS_INDEX(i, j) == i * gs_size + j

Cells == 0 .. (gs_size * gs_size - 1)

RowOf(c) == c \div gs_size

ColOf(c) == c % gs_size

IsBoundary(c) ==
    \/ RowOf(c) = 0
    \/ RowOf(c) = gs_size - 1
    \/ ColOf(c) = 0
    \/ ColOf(c) = gs_size - 1

(* Initial grids: interior 0, top row and left column at a, bottom row and *)
(* right column at b, corners 0.                                           *)
MakeGrid(S, a, b) ==
    [c \in 0 .. (S * S - 1) |->
        LET r == c \div S
            k == c % S
        IN  IF (r \in {0, S - 1}) /\ (k \in {0, S - 1}) THEN 0
            ELSE IF r = 0 \/ k = 0 THEN a
            ELSE IF r = S - 1 \/ k = S - 1 THEN b
            ELSE 0]

(* ---- arithmetic -------------------------------------------------------- *)
Abs(x) == IF x < 0 THEN -x ELSE x

(* 0.25 * x in finite precision: nearest unit, ties to even *)
Quarter(x) ==
    LET q == x \div 4
        r == x % 4
    IN  IF r < 2 THEN q
        ELSE IF r > 2 THEN q + 1
        ELSE IF q % 2 = 0 THEN q ELSE q + 1

(* the standard stencil of thread_sweep *)
Stencil(m, i, j) ==
    Quarter(m[GS_INDEX(i + 1, j)] + m[GS_INDEX(i - 1, j)]
            + m[GS_INDEX(i, j + 1)] + m[GS_INDEX(i, j - 1)])

(* ---- domain decomposition (thread_compute) ----------------------------- *)
InteriorSize == gs_size - 2

(* faulty variant: the chunk is rounded up *)
PointsPerThreadCeil == (InteriorSize + gs_nthreads - 1) \div gs_nthreads

PointsPerThread == InteriorSize \div gs_nthreads

(* faulty variant: the range starts at column 0 *)
StartColFromZero(tid) == tid * PointsPerThread

StartCol(tid) == 1 + tid * PointsPerThread

(* faulty variant: the last worker does not absorb the remainder *)
EndColNoRemainder(tid) == StartCol(tid) + PointsPerThread

(* faulty variant: every worker sweeps to the last interior column *)
EndColWholeInterior(tid) == gs_size - 1

EndCol(tid) ==
    IF tid = gs_nthreads - 1 THEN gs_size - 1 ELSE StartCol(tid) + PointsPerThread

(* ---- the conditions of the loops --------------------------------------- *)
(* faulty variant: the loop stops once the tolerance is met *)
LoopStopsOnConvergence(t) ==
    iter[t] < gs_iterations /\ global_error > gs_tolerance

(* for (iter = 0; iter < gs_iterations; iter++) *)
LoopContinues(t) == iter[t] < gs_iterations

(* faulty variant: no wait on the left neighbour *)
LeftReadyNoWait(tid, i) == TRUE

(* faulty variant: waits for the row after i *)
LeftReadyLate(tid, i) ==
    IF tid > 0 THEN threads[tid - 1].row_progress > i ELSE TRUE

(* faulty variant: content with the row before i *)
LeftReadyEarly(tid, i) ==
    IF tid > 0 THEN threads[tid - 1].row_progress >= i - 1 ELSE TRUE

(* faulty variant: waits for the left neighbour's whole sweep *)
LeftReadyWholeSweep(tid, i) ==
    IF tid > 0 THEN threads[tid - 1].row_progress >= gs_size - 2 ELSE TRUE

(* the spin-wait on the left neighbour's progress counter *)
LeftReady(tid, i) == IF tid > 0 THEN threads[tid - 1].row_progress >= i ELSE TRUE

(* faulty variant: publishes the row that comes next *)
PublishValueNext(i) == i + 1

(* faulty variant: publishes the rows that remain *)
PublishValueDown(i) == gs_size - 1 - i

(* the value thread_sweep publishes after row i *)
PublishValue(i) == i

(* the sentinel thread_compute stores before an iteration *)
ResetValue == 0

(* exit(EXIT_FAILURE) ends the process and every thread in it *)
Alive == main_pc # "aborted"

(* ---- gsi_init ----------------------------------------------------------- *)
Init ==
    /\ gs_size \in 3 .. MaxSize
    /\ gs_nthreads \in 1 .. MaxThreads
    /\ gs_iterations \in 0 .. MaxIter
    /\ gs_tolerance \in 0 .. MaxTol
    /\ \E a \in {0, MaxVal}, b \in {0, MaxVal} : gs_matrix = MakeGrid(gs_size, a, b)
    /\ threads = [t \in Tids |-> [error |-> 0, row_progress |-> 0]]
    /\ global_error = gs_tolerance + 1
    /\ final_iteration = gs_iterations
    /\ barrier_count = 0
    /\ pc = [t \in Tids |-> "not_created"]
    /\ resume = [t \in Tids |-> "none"]
    /\ iter = [t \in Tids |-> 0]
    /\ start_col = [t \in Tids |-> 0]
    /\ end_col = [t \in Tids |-> 0]
    /\ row_i = [t \in Tids |-> 0]
    /\ col_j = [t \in Tids |-> 0]
    /\ local_error = [t \in Tids |-> 0]
    /\ new_value = [t \in Tids |-> 0]
    /\ main_pc = "create"
    /\ main_t = 0
    /\ report = "none"
    /\ matrix0 = gs_matrix
    /\ version = [c \in Cells |-> 0]
    /\ err_hist = << >>
    /\ sweeps = [t \in Tids |-> 0]
    /\ bwaits = [t \in Tids |-> 0]
    /\ create_failed = FALSE
    /\ join_failed = FALSE

config_vars == << gs_size, gs_nthreads, gs_iterations, gs_tolerance, matrix0 >>

main_vars == << main_pc, main_t, report, create_failed, join_failed >>

sweep_vars == << row_i, col_j, local_error, new_value >>

(* faulty variant: the wait returns at once *)
pthread_barrier_nowait(t, next) ==
    /\ bwaits' = [bwaits EXCEPT ![t] = @ + 1]
    /\ pc' = [pc EXCEPT ![t] = next]
    /\ UNCHANGED << barrier_count, resume >>

(* faulty variant: the barrier opens one arrival early *)
pthread_barrier_short(t, next) ==
    /\ bwaits' = [bwaits EXCEPT ![t] = @ + 1]
    /\ IF barrier_count + 1 >= gs_nthreads - 1
       THEN /\ barrier_count' = 0
            /\ pc' = [u \in Tids |->
                        IF u = t THEN next
                        ELSE IF pc[u] = "blocked" THEN resume[u]
                        ELSE pc[u]]
            /\ resume' = [u \in Tids |-> "none"]
       ELSE /\ barrier_count' = barrier_count + 1
            /\ pc' = [pc EXCEPT ![t] = "blocked"]
            /\ resume' = [resume EXCEPT ![t] = next]

(* ---- pthread_barrier_wait ----------------------------------------------- *)
(* The last of gs_nthreads arrivals releases every blocked thread.         *)
pthread_barrier_wait(t, next) ==
    /\ bwaits' = [bwaits EXCEPT ![t] = @ + 1]
    /\ IF barrier_count + 1 = gs_nthreads
       THEN /\ barrier_count' = 0
            /\ pc' = [u \in Tids |->
                        IF u = t THEN next
                        ELSE IF pc[u] = "blocked" THEN resume[u]
                        ELSE pc[u]]
            /\ resume' = [u \in Tids |-> "none"]
       ELSE /\ barrier_count' = barrier_count + 1
            /\ pc' = [pc EXCEPT ![t] = "blocked"]
            /\ resume' = [resume EXCEPT ![t] = next]

(* ---- thread_compute ------------------------------------------------------ *)
ThreadStart(t) ==
    /\ Alive
    /\ pc[t] = "start"
    /\ start_col' = [start_col EXCEPT ![t] = StartCol(t)]
    /\ end_col' = [end_col EXCEPT ![t] = EndCol(t)]
    /\ iter' = [iter EXCEPT ![t] = 0]
    /\ pc' = [pc EXCEPT ![t] = "loop"]
    /\ UNCHANGED << config_vars, main_vars, sweep_vars, gs_matrix, threads,
                    global_error, final_iteration, barrier_count, resume,
                    version, err_hist, sweeps, bwaits >>

ResetProgress(t) ==
    /\ Alive
    /\ pc[t] = "loop"
    /\ LoopContinues(t)
    /\ threads' = [threads EXCEPT ![t].row_progress = ResetValue]
    /\ pc' = [pc EXCEPT ![t] = "bar1"]
    /\ UNCHANGED << config_vars, main_vars, sweep_vars, gs_matrix,
                    global_error, final_iteration, barrier_count, resume,
                    iter, start_col, end_col, version, err_hist, sweeps, bwaits >>

ThreadReturn(t) ==
    /\ Alive
    /\ pc[t] = "loop"
    /\ ~LoopContinues(t)
    /\ pc' = [pc EXCEPT ![t] = "done"]
    /\ UNCHANGED << config_vars, main_vars, sweep_vars, gs_matrix, threads,
                    global_error, final_iteration, barrier_count, resume,
                    iter, start_col, end_col, version, err_hist, sweeps, bwaits >>

Barrier1(t) ==
    /\ Alive
    /\ pc[t] = "bar1"
    /\ pthread_barrier_wait(t, "sweep")
    /\ UNCHANGED << config_vars, main_vars, sweep_vars, gs_matrix, threads,
                    global_error, final_iteration, iter, start_col, end_col,
                    version, err_hist, sweeps >>

Barrier2(t) ==
    /\ Alive
    /\ pc[t] = "bar2"
    /\ pthread_barrier_wait(t, "reduce")
    /\ UNCHANGED << config_vars, main_vars, sweep_vars, gs_matrix, threads,
                    global_error, final_iteration, iter, start_col, end_col,
                    version, err_hist, sweeps >>

Barrier3(t) ==
    /\ Alive
    /\ pc[t] = "bar3"
    /\ pthread_barrier_wait(t, "incr")
    /\ UNCHANGED << config_vars, main_vars, sweep_vars, gs_matrix, threads,
                    global_error, final_iteration, iter, start_col, end_col,
                    version, err_hist, sweeps >>

(* worker 0 sums the local errors and checks for convergence *)
SumErrors(n) == LET RECURSIVE Sum(_)
                    Sum(k) == IF k = 0 THEN 0 ELSE Sum(k - 1) + threads[k - 1].error
                IN  Sum(n)

(* faulty variant: every worker reduces *)
IsReducerAny(tid) == TRUE

(* if (tid == 0) *)
IsReducer(tid) == tid = 0

Reduce(t) ==
    /\ Alive
    /\ pc[t] = "reduce"
    /\ IF IsReducer(t)
       THEN LET e == SumErrors(gs_nthreads)
            IN  /\ global_error' = e
                /\ final_iteration' =
                      IF e <= gs_tolerance THEN iter[t] + 1 ELSE final_iteration
                /\ err_hist' = Append(err_hist, e)
       ELSE UNCHANGED << global_error, final_iteration, err_hist >>
    /\ pc' = [pc EXCEPT ![t] = "bar3"]
    /\ UNCHANGED << config_vars, main_vars, sweep_vars, gs_matrix, threads,
                    barrier_count, resume, iter, start_col, end_col, version,
                    sweeps, bwaits >>

NextIteration(t) ==
    /\ Alive
    /\ pc[t] = "incr"
    /\ iter' = [iter EXCEPT ![t] = @ + 1]
    /\ pc' = [pc EXCEPT ![t] = "loop"]
    /\ UNCHANGED << config_vars, main_vars, sweep_vars, gs_matrix, threads,
                    global_error, final_iteration, barrier_count, resume,
                    start_col, end_col, version, err_hist, sweeps, bwaits >>

(* ---- thread_sweep -------------------------------------------------------- *)
(* faulty variant: the accumulator keeps the sum of the sweep before *)
LocalErrorCarried(t) == local_error[t]

(* double local_error = 0.0 *)
LocalErrorInit(t) == 0

SweepEnter(t) ==
    /\ Alive
    /\ pc[t] = "sweep"
    /\ local_error' = [local_error EXCEPT ![t] = LocalErrorInit(t)]
    /\ row_i' = [row_i EXCEPT ![t] = 1]
    /\ pc' = [pc EXCEPT ![t] = IF 1 < gs_size - 1 THEN "wait" ELSE "store_err"]
    /\ UNCHANGED << config_vars, main_vars, col_j, new_value, gs_matrix, threads,
                    global_error, final_iteration, barrier_count, resume,
                    iter, start_col, end_col, version, err_hist, sweeps, bwaits >>

WaitLeft(t) ==
    /\ Alive
    /\ pc[t] = "wait"
    /\ LeftReady(t, row_i[t])
    /\ col_j' = [col_j EXCEPT ![t] = start_col[t]]
    /\ pc' = [pc EXCEPT ![t] = "cell"]
    /\ UNCHANGED << config_vars, main_vars, row_i, local_error, new_value,
                    gs_matrix, threads, global_error, final_iteration,
                    barrier_count, resume, iter, start_col, end_col, version,
                    err_hist, sweeps, bwaits >>

ReadStencil(t) ==
    /\ Alive
    /\ pc[t] = "cell"
    /\ col_j[t] < end_col[t]
    /\ new_value' = [new_value EXCEPT ![t] = Stencil(gs_matrix, row_i[t], col_j[t])]
    /\ pc' = [pc EXCEPT ![t] = "write"]
    /\ UNCHANGED << config_vars, main_vars, row_i, col_j, local_error,
                    gs_matrix, threads, global_error, final_iteration,
                    barrier_count, resume, iter, start_col, end_col, version,
                    err_hist, sweeps, bwaits >>

WriteCell(t) ==
    LET c == GS_INDEX(row_i[t], col_j[t])
    IN  /\ Alive
        /\ pc[t] = "write"
        /\ local_error' =
              [local_error EXCEPT ![t] = @ + Abs(gs_matrix[c] - new_value[t])]
        /\ gs_matrix' = [gs_matrix EXCEPT ![c] = new_value[t]]
        /\ version' = [version EXCEPT ![c] = @ + 1]
        /\ col_j' = [col_j EXCEPT ![t] = @ + 1]
        /\ pc' = [pc EXCEPT ![t] = "cell"]
        /\ UNCHANGED << config_vars, main_vars, row_i, new_value, threads,
                        global_error, final_iteration, barrier_count, resume,
                        iter, start_col, end_col, err_hist, sweeps, bwaits >>

Publish(t) ==
    /\ Alive
    /\ pc[t] = "cell"
    /\ col_j[t] >= end_col[t]
    /\ threads' = [threads EXCEPT ![t].row_progress = PublishValue(row_i[t])]
    /\ row_i' = [row_i EXCEPT ![t] = @ + 1]
    /\ pc' = [pc EXCEPT ![t] =
                 IF row_i[t] + 1 < gs_size - 1 THEN "wait" ELSE "store_err"]
    /\ UNCHANGED << config_vars, main_vars, col_j, local_error, new_value,
                    gs_matrix, global_error, final_iteration, barrier_count,
                    resume, iter, start_col, end_col, version, err_hist,
                    sweeps, bwaits >>

StoreError(t) ==
    /\ Alive
    /\ pc[t] = "store_err"
    /\ threads' = [threads EXCEPT ![t].error = local_error[t]]
    /\ sweeps' = [sweeps EXCEPT ![t] = @ + 1]
    /\ pc' = [pc EXCEPT ![t] = "bar2"]
    /\ UNCHANGED << config_vars, main_vars, sweep_vars, gs_matrix,
                    global_error, final_iteration, barrier_count, resume,
                    iter, start_col, end_col, version, err_hist, bwaits >>

(* ---- gsi_calculate ------------------------------------------------------- *)
worker_vars == << gs_matrix, threads, global_error, final_iteration,
                  barrier_count, resume, iter, start_col, end_col, row_i,
                  col_j, local_error, new_value, version, err_hist, sweeps,
                  bwaits >>

CreateThread ==
    /\ main_pc = "create"
    /\ pc[main_t] = "not_created"
    /\ pc' = [pc EXCEPT ![main_t] = "start"]
    /\ main_t' = IF main_t + 1 < gs_nthreads THEN main_t + 1 ELSE 0
    /\ main_pc' = IF main_t + 1 < gs_nthreads THEN "create" ELSE "join"
    /\ UNCHANGED << config_vars, worker_vars, report, create_failed, join_failed >>

JoinThread ==
    /\ main_pc = "join"
    /\ pc[main_t] = "done"
    /\ main_t' = IF main_t + 1 < gs_nthreads THEN main_t + 1 ELSE 0
    /\ main_pc' = IF main_t + 1 < gs_nthreads THEN "join" ELSE "report"
    /\ UNCHANGED << config_vars, worker_vars, pc, report, create_failed,
                    join_failed >>

Report ==
    /\ main_pc = "report"
    /\ report' = IF global_error <= gs_tolerance THEN "converged" ELSE "not_converged"
    /\ main_pc' = "returned"
    /\ UNCHANGED << config_vars, worker_vars, pc, main_t, create_failed,
                    join_failed >>

(* pthread_create returns an error: the branch that calls exit *)
CreateFails ==
    /\ main_pc = "create"
    /\ create_failed' = TRUE
    /\ main_pc' = "aborted"
    /\ UNCHANGED << config_vars, worker_vars, pc, main_t, report, join_failed >>

(* pthread_join returns an error: its result is not looked at *)
JoinFails ==
    /\ main_pc = "join"
    /\ join_failed' = TRUE
    /\ main_t' = IF main_t + 1 < gs_nthreads THEN main_t + 1 ELSE 0
    /\ main_pc' = IF main_t + 1 < gs_nthreads THEN "join" ELSE "report"
    /\ UNCHANGED << config_vars, worker_vars, pc, report, create_failed >>

(* ---- specifications ------------------------------------------------------ *)
ThreadStep(t) ==
    \/ ThreadStart(t)
    \/ ResetProgress(t)
    \/ ThreadReturn(t)
    \/ Barrier1(t)
    \/ SweepEnter(t)
    \/ WaitLeft(t)
    \/ ReadStencil(t)
    \/ WriteCell(t)
    \/ Publish(t)
    \/ StoreError(t)
    \/ Barrier2(t)
    \/ Reduce(t)
    \/ Barrier3(t)
    \/ NextIteration(t)

MainStep ==
    \/ CreateThread
    \/ JoinThread
    \/ Report

Next ==
    \/ \E t \in Tids : ThreadStart(t)
    \/ \E t \in Tids : ResetProgress(t)
    \/ \E t \in Tids : ThreadReturn(t)
    \/ \E t \in Tids : Barrier1(t)
    \/ \E t \in Tids : SweepEnter(t)
    \/ \E t \in Tids : WaitLeft(t)
    \/ \E t \in Tids : ReadStencil(t)
    \/ \E t \in Tids : WriteCell(t)
    \/ \E t \in Tids : Publish(t)
    \/ \E t \in Tids : StoreError(t)
    \/ \E t \in Tids : Barrier2(t)
    \/ \E t \in Tids : Reduce(t)
    \/ \E t \in Tids : Barrier3(t)
    \/ \E t \in Tids : NextIteration(t)
    \/ CreateThread
    \/ JoinThread
    \/ Report

(* every pthread call succeeds *)
Spec == Init /\ [][Next]_vars

NextFaults ==
    \/ Next
    \/ CreateFails
    \/ JoinFails

(* pthread_create and pthread_join may fail *)
SpecFaults == Init /\ [][NextFaults]_vars

(* The control flow never reads the grid: the fair runs start from one grid. *)
FairInit == Init /\ gs_matrix = MakeGrid(gs_size, MaxVal, 0)

(* The runs from one grid, for what depends on the synchronisation alone. *)
SyncSpec == FairInit /\ [][Next]_vars

(* every created thread and the main thread keep being scheduled *)
FairSpec ==
    /\ FairInit
    /\ [][Next]_vars
    /\ \A t \in 0 .. (MaxThreads - 1) : WF_vars(t \in Tids /\ ThreadStep(t))
    /\ WF_vars(MainStep)

(* ======================================================================== *)
(* Properties                                                               *)
(* ======================================================================== *)
AllDone == \A t \in Tids : pc[t] = "done"

IsInterior(k) == k >= 1 /\ k <= gs_size - 2

(* One sweep of a single worker over the whole interior (the run with      *)
(* gs_nthreads = 1): rows top to bottom, columns left to right, in place.  *)
RECURSIVE SweepFrom(_, _, _)
SweepFrom(m, i, j) ==
    IF i > gs_size - 2 THEN m
    ELSE IF j > gs_size - 2 THEN SweepFrom(m, i + 1, 1)
    ELSE SweepFrom([m EXCEPT ![GS_INDEX(i, j)] = Stencil(m, i, j)], i, j + 1)

RECURSIVE SeqRun(_, _)
SeqRun(m, n) == IF n = 0 THEN m ELSE SeqRun(SweepFrom(m, 1, 1), n - 1)

RangesComputed == \A t \in Tids : pc[t] \notin {"not_created", "start"}

Owners(c) == {t \in Tids : start_col[t] <= c /\ c < end_col[t]}

C2_Partition ==
    RangesComputed =>
       /\ start_col[0] = 1
       /\ end_col[gs_nthreads - 1] = gs_size - 1
       /\ \A t \in Tids : start_col[t] <= end_col[t]
       /\ \A t \in Tids : t + 1 < gs_nthreads => end_col[t] = start_col[t + 1]
       /\ \A c \in 0 .. (gs_size - 1) :
             Cardinality(Owners(c)) = IF IsInterior(c) THEN 1 ELSE 0
       /\ gs_nthreads = 1 => (start_col[0] = 1 /\ end_col[0] = gs_size - 1)

C2_Witness ==
    /\ RangesComputed
    /\ gs_nthreads > 1
    /\ InteriorSize % gs_nthreads # 0

(* C3: no boundary cell is ever written: rows and columns 0 and S-1 keep   *)
(* their initial values.                                                   *)
C3_BoundaryFixed ==
    \A c \in Cells : IsBoundary(c) => (gs_matrix[c] = matrix0[c] /\ version[c] = 0)

C3_Witness ==
    /\ AllDone
    /\ gs_nthreads > 1
    /\ gs_iterations > 1
    /\ \E c \in Cells : version[c] = gs_iterations /\ gs_matrix[c] # matrix0[c]

(* The iterations whose global error met the tolerance. *)
MetAt == {k \in 1 .. Len(err_hist) : err_hist[k] <= gs_tolerance}

FirstMet == CHOOSE k \in MetAt : \A n \in MetAt : k <= n

(* C4: after the run the final-iteration record is the first iteration     *)
(* whose global error met the tolerance, or I if none did.                 *)
C4_RecordsFirstConvergence ==
    main_pc = "returned" =>
       final_iteration = IF MetAt # {} THEN FirstMet ELSE gs_iterations

(* C5: under fair scheduling the run ends, and gsi_calculate returns only  *)
(* after every worker has completed all I iterations.                      *)
C5_Terminates ==
    /\ <>(main_pc = "returned")
    /\ [](main_pc = "returned" =>
             \A t \in Tids :
                pc[t] = "done" /\ iter[t] = gs_iterations
                               /\ sweeps[t] = gs_iterations)

C5_Witness ==
    /\ main_pc = "returned"
    /\ gs_nthreads > 1
    /\ gs_iterations > 1
    /\ \A t \in Tids : sweeps[t] = gs_iterations

(* C6: a worker that has left its loop has made exactly I sweeps and 3*I   *)
(* barrier waits, also when the tolerance was met at an earlier iteration. *)
C6_FullRun ==
    \A t \in Tids :
       pc[t] = "done" => (sweeps[t] = gs_iterations /\ bwaits[t] = 3 * gs_iterations)

C6_Witness ==
    /\ AllDone
    /\ gs_iterations > 1
    /\ 1 \in MetAt
    /\ \A t \in Tids : sweeps[t] = gs_iterations

(* C7: gsi_calculate reports no convergence exactly when no iteration met  *)
(* the tolerance.                                                          *)
C7_ReportsAnyConvergence ==
    main_pc = "returned" => (report = "not_converged" <=> MetAt = {})

(* C8: from the reset to the end of the sweep the progress counter goes    *)
(* 0, 1, ..., S-2: it is 0 after the reset, i-1 while row i is worked on,  *)
(* S-2 when the sweep ends, and it only changes by one step up.            *)
C8_CountsEveryRow ==
    /\ [](\A t \in Tids :
            /\ (pc[t] \in {"bar1", "sweep"} \/ resume[t] = "sweep")
                  => threads[t].row_progress = 0
            /\ pc[t] \in {"wait", "cell", "write"}
                  => threads[t].row_progress = row_i[t] - 1
            /\ pc[t] = "store_err" => threads[t].row_progress = gs_size - 2)
    /\ [][\A t \in Tids :
             (pc[t] # "loop" /\ threads'[t].row_progress # threads[t].row_progress)
                => threads'[t].row_progress = threads[t].row_progress + 1]_vars

C8_Witness ==
    \E t \in Tids :
       /\ pc[t] = "store_err"
       /\ iter[t] > 0
       /\ gs_size > 3
       /\ threads[t].row_progress = gs_size - 2

(* C9 as stated: no step stores a value smaller than the counter's value.  *)
C9_NeverDecreases ==
    [][\A t \in Tids : threads'[t].row_progress >= threads[t].row_progress]_vars

(* C9 amended: the only store of a smaller value is the reset to 0 at the  *)
(* start of an iteration; between resets the counter never decreases.      *)
C9_DecreasesOnlyAtReset ==
    [][\A t \in Tids :
          threads'[t].row_progress < threads[t].row_progress
             => (pc[t] = "loop" /\ pc'[t] = "bar1" /\ threads'[t].row_progress = 0)]_vars

C9_Witness ==
    \E t \in Tids :
       /\ pc[t] = "bar1"
       /\ iter[t] > 0
       /\ threads[t].row_progress = 0

(* C10: when creating or joining a worker thread fails the process aborts  *)
(* and no convergence result is reported.                                  *)
C10_FailureAborts ==
    (create_failed \/ join_failed) => (report = "none" /\ main_pc # "returned")

(* Positions of a worker inside one sweep. *)
Updating(t) == pc[t] \in {"cell", "write"}

BetweenBarriers12(u) ==
    \/ pc[u] \in {"sweep", "wait", "cell", "write", "store_err", "bar2"}
    \/ pc[u] = "blocked" /\ resume[u] = "reduce"

(* worker u has published row i in its current sweep *)
RowFinished(u, i) ==
    \/ pc[u] \in {"wait", "cell", "write"} /\ row_i[u] > i
    \/ pc[u] \in {"store_err", "bar2"}
    \/ pc[u] = "blocked" /\ resume[u] = "reduce"

(* rows worker u has published since the last barrier 1 *)
RowsDone(u) ==
    IF pc[u] = "sweep" THEN 0
    ELSE IF pc[u] \in {"wait", "cell", "write"} THEN row_i[u] - 1
    ELSE gs_size - 2

(* C11: while worker t > 0 updates a cell of row i in iteration k, worker  *)
(* t-1 has finished row i of iteration k, so the cell left of t's range    *)
(* holds the value written in iteration k; worker 0 never waits.           *)
C11_LeftNeighbourDone ==
    \A t \in Tids :
       /\ (t > 0 /\ Updating(t)) =>
             /\ iter[t - 1] = iter[t]
             /\ threads[t - 1].row_progress >= row_i[t]
             /\ RowFinished(t - 1, row_i[t])
             /\ IsInterior(start_col[t] - 1) =>
                   version[GS_INDEX(row_i[t], start_col[t] - 1)] = iter[t] + 1
       /\ (t = 0 /\ pc[t] = "wait") => ENABLED WaitLeft(t)

C11_Witness ==
    \E t \in Tids :
       /\ t > 0
       /\ pc[t] = "write"
       /\ iter[t] > 0
       /\ col_j[t] = start_col[t]
       /\ IsInterior(start_col[t] - 1)

(* C12: when a worker is about to read its neighbour's progress counter,   *)
(* every worker is in the same iteration, has reset its counter for it and *)
(* has passed barrier 1: each counter holds the rows published in this     *)
(* iteration, never the S-2 of the iteration before.                       *)
C12_ResetBeforeFirstRead ==
    \A t \in Tids :
       (t > 0 /\ pc[t] = "wait") =>
          \A u \in Tids :
             /\ iter[u] = iter[t]
             /\ BetweenBarriers12(u)
             /\ threads[u].row_progress = RowsDone(u)

C12_Witness ==
    \E t \in Tids :
       /\ t > 0
       /\ pc[t] = "wait"
       /\ row_i[t] = 1
       /\ iter[t] > 0
       /\ pc[t - 1] = "sweep"
       /\ threads[t - 1].row_progress = 0

(* the workers whose column range holds column c *)
RangeOwners(c) == {u \in Tids : StartCol(u) <= c /\ c < EndCol(u)}

(* worker o has gone past cell (r, c) in the sweep it is in *)
PassedCell(o, r, c) ==
    \/ pc[o] = "wait" /\ row_i[o] > r
    \/ pc[o] \in {"cell", "write"}
          /\ (row_i[o] > r \/ (row_i[o] = r /\ col_j[o] > c))
    \/ pc[o] = "store_err"

(* C13: a worker writes only interior cells of its own column range, each  *)
(* column has one owner, and every interior cell has been written once per *)
(* sweep of its owner: once in each finished sweep and once more if the    *)
(* owner has passed it in the sweep under way.                             *)
C13_OneWriterPerCell ==
    /\ \A t \in Tids :
          pc[t] = "write" =>
             /\ IsInterior(row_i[t])
             /\ IsInterior(col_j[t])
             /\ start_col[t] <= col_j[t] /\ col_j[t] < end_col[t]
             /\ RangeOwners(col_j[t]) = {t}
    /\ \A o \in Tids :
          \A r \in 1 .. (gs_size - 2) :
             \A c \in StartCol(o) .. (EndCol(o) - 1) :
                version[GS_INDEX(r, c)] =
                   sweeps[o] + (IF PassedCell(o, r, c) THEN 1 ELSE 0)

C13_Witness ==
    /\ AllDone
    /\ gs_nthreads > 2
    /\ gs_size > 4
    /\ gs_iterations > 1
    /\ \A c \in Cells : ~IsBoundary(c) => version[c] = gs_iterations

(* the part of an iteration from the return of barrier 1 to the store of   *)
(* the local error                                                         *)
SweepPhase(t) == pc[t] \in {"sweep", "wait", "cell", "write", "store_err"}

(* C14: while a worker is in the sweep of iteration k+1 (iter = k), every  *)
(* worker has finished k sweeps and worker 0 has finished k reductions.    *)
C14_IterationsOrdered ==
    \A t \in Tids :
       SweepPhase(t) =>
          /\ Len(err_hist) = iter[t]
          /\ \A u \in Tids : sweeps[u] >= iter[t] /\ iter[u] = iter[t]

C14_Witness ==
    \E t \in Tids :
       /\ pc[t] = "cell"
       /\ iter[t] = 1
       /\ gs_nthreads > 1
       /\ \E u \in Tids : sweeps[u] = 1 /\ SweepPhase(u)

(* worker u waits for worker 0's reduction: past barrier 2, not past       *)
(* barrier 3                                                               *)
WaitsForReduction(u) ==
    \/ pc[u] \in {"reduce", "bar3"}
    \/ pc[u] = "blocked" /\ resume[u] = "incr"

(* C15: the global error and the final-iteration record change only in     *)
(* worker 0's reduction step, and while worker 0 is at its reduction every *)
(* other worker is between barrier 2 and barrier 3 of the same iteration.  *)
C15_ReductionExclusive ==
    /\ [](pc[0] = "reduce" =>
             \A u \in Tids : u # 0 => (WaitsForReduction(u) /\ iter[u] = iter[0]))
    /\ [][(global_error' # global_error \/ final_iteration' # final_iteration
              \/ err_hist' # err_hist)
             => (pc[0] = "reduce" /\ pc'[0] = "bar3"
                   /\ \A u \in Tids : u # 0 => (pc'[u] = pc[u] /\ WaitsForReduction(u)))]_vars

C15_Witness ==
    /\ pc[0] = "bar3"
    /\ gs_nthreads > 2
    /\ iter[0] = 1
    /\ Len(err_hist) = 2
    /\ final_iteration = 2
    /\ \E u \in Tids : pc[u] = "reduce"

(* The error of one sweep of a single worker over the whole interior of m: *)
(* the sum of |old - new| over the cells from (i, j) on.                   *)
RECURSIVE SweepErrorFrom(_, _, _)
SweepErrorFrom(m, i, j) ==
    IF i > gs_size - 2 THEN 0
    ELSE IF j > gs_size - 2 THEN SweepErrorFrom(m, i + 1, 1)
    ELSE LET nv == Stencil(m, i, j)
         IN  Abs(m[GS_INDEX(i, j)] - nv)
             + SweepErrorFrom([m EXCEPT ![GS_INDEX(i, j)] = nv], i, j + 1)

(* C16: after the reduction of iteration k the global error is the sum of  *)
(* the workers' local errors, and that is the sum of |old - new| over the  *)
(* interior cells updated in iteration k alone.                            *)
C16_GlobalErrorOfIteration ==
    (pc[0] = "bar3" \/ (pc[0] = "blocked" /\ resume[0] = "incr")) =>
       /\ global_error = SumErrors(gs_nthreads)
       /\ global_error = SweepErrorFrom(SeqRun(matrix0, iter[0]), 1, 1)

C16_Witness ==
    /\ pc[0] = "bar3"
    /\ iter[0] = 1
    /\ gs_nthreads > 1
    /\ err_hist[1] > 0
    /\ global_error > 0
    /\ \A u \in Tids : threads[u].error > 0

Min(a, b) == IF a < b THEN a ELSE b

(* ceil((S-2)/N) and floor((S-2)/N) *)
CeilChunk == (gs_size - 2 + gs_nthreads - 1) \div gs_nthreads

FloorChunk == (gs_size - 2) \div gs_nthreads

(* C17 as stated: worker t owns [1 + t*chunk, min(1 + (t+1)*chunk, S-1))   *)
(* with chunk = ceil((S-2)/N).                                             *)
C17_CeilChunks ==
    RangesComputed =>
       \A t \in Tids :
          /\ start_col[t] = 1 + t * CeilChunk
          /\ end_col[t] = Min(1 + (t + 1) * CeilChunk, gs_size - 1)

(* C17 amended: chunk = floor((S-2)/N); worker t < N-1 owns                *)
(* [1 + t*chunk, 1 + (t+1)*chunk) and worker N-1 owns                      *)
(* [1 + (N-1)*chunk, S-1).                                                 *)
C17_FloorChunks ==
    \A t \in Tids :
       pc[t] \notin {"not_created", "start"} =>
          /\ start_col[t] = 1 + t * FloorChunk
          /\ end_col[t] = IF t = gs_nthreads - 1
                          THEN gs_size - 1
                          ELSE 1 + (t + 1) * FloorChunk

C17_Witness ==
    /\ RangesComputed
    /\ gs_size = 5
    /\ gs_nthreads = 2
    /\ end_col[0] - start_col[0] = 1
    /\ end_col[1] - start_col[1] = 2

NotStartedRow(u, i) ==
    \/ pc[u] = "sweep"
    \/ pc[u] = "wait" /\ row_i[u] <= i
    \/ pc[u] \in {"cell", "write"} /\ row_i[u] < i

(* C19: while worker t < N-1 with a non-empty range works on row i in      *)
(* iteration k, the cell right of its range belongs to worker t+1, has not *)
(* been written in iteration k, and worker t+1 is in iteration k and has   *)
(* not started row i, so it is not writing that cell either.               *)
C19_RightNeighbourNotYet ==
    \A t \in Tids :
       (t < gs_nthreads - 1 /\ Updating(t) /\ start_col[t] < end_col[t]) =>
          /\ IsInterior(end_col[t])
          /\ RangeOwners(end_col[t]) = {t + 1}
          /\ iter[t + 1] = iter[t]
          /\ NotStartedRow(t + 1, row_i[t])
          /\ \A j \in start_col[t + 1] .. (end_col[t + 1] - 1) :
                version[GS_INDEX(row_i[t], j)] = iter[t]

C19_Witness ==
    \E t \in Tids :
       /\ t < gs_nthreads - 1
       /\ pc[t] = "write"
       /\ col_j[t] = end_col[t] - 1
       /\ iter[t] > 0
       /\ pc[t + 1] = "wait"
       /\ row_i[t + 1] = row_i[t]
       /\ row_i[t] > 1

MoreWorkersThanColumns == gs_nthreads > gs_size - 2

(* C20: with more workers than interior columns, workers 0..N-2 own empty  *)
(* ranges and worker N-1 owns columns 1..S-2; a worker never publishes a   *)
(* row before its left neighbour has, an empty-range worker ends its sweep *)
(* with S-2 published, every interior cell is written once per iteration,  *)
(* and under fair scheduling the run returns after all I iterations.       *)
C20_EmptyRangesKeepChain ==
    /\ [](MoreWorkersThanColumns =>
            /\ \A t \in Tids :
                  pc[t] \notin {"not_created", "start"} =>
                     IF t < gs_nthreads - 1
                     THEN start_col[t] = end_col[t]
                     ELSE start_col[t] = 1 /\ end_col[t] = gs_size - 1
            /\ \A t \in Tids :
                  (t > 0 /\ pc[t] \in {"wait", "cell", "write", "store_err"}) =>
                     threads[t].row_progress <= threads[t - 1].row_progress
            /\ \A t \in Tids :
                  pc[t] = "store_err" => threads[t].row_progress = gs_size - 2
            /\ AllDone =>
                  /\ \A c \in Cells : ~IsBoundary(c) => version[c] = gs_iterations
                  /\ \A t \in Tids : sweeps[t] = gs_iterations)
    /\ (MoreWorkersThanColumns ~> (main_pc = "returned" /\ AllDone))

C20_Witness ==
    /\ MoreWorkersThanColumns
    /\ main_pc = "returned"
    /\ gs_size = 4
    /\ gs_nthreads = 3
    /\ gs_iterations = 2
    /\ \A c \in Cells : ~IsBoundary(c) => version[c] = 2
    /\ \A t \in Tids : threads[t].row_progress = 2

=============================================================================
